---- MODULE Spec2Model ----
(***************************************************************************)
(* A model of the notebook "103 - Before and After MMLSpark.ipynb".        *)
(*                                                                         *)
(* Two levels are modelled.                                                *)
(*  - The row level (specification SpecRow): the column expressions of    *)
(*    cells 3 and 4 (word_count, word_length, the label, Tokenizer,        *)
(*    HashingTF, VectorAssembler, the integer cast) applied to one row.    *)
(*    Spark applies all of them row by row.                                *)
(*  - The kernel level (specifications Spec and SpecNI): the notebook's    *)
(*    namespace, the local file system and the cell outputs, with one      *)
(*    action per statement group of a cell.  A DataFrame is abstracted to  *)
(*    the set of its row identifiers.                                      *)
(***************************************************************************)
EXTENDS Integers, Sequences, FiniteSets, TLC

VARIABLES
    rows,           \* row level: DataFrame name -> the row's value in that DataFrame
    file,           \* kernel: the local file BookReviewsFromAmazon10K.tsv
    requests,       \* kernel: number of urlretrieve calls issued so far
    raw_data, data, processedData,          \* kernel: the DataFrames of cells 1, 3, 4
    train, test, validation,                \* kernel: the splits (names shared by 4a and 4b)
    metrics, models, best_model,            \* kernel: cell 4a (metrics is reassigned by 4b)
    lrmodels, bestModel,                    \* kernel: cell 4b
    saved,          \* kernel: the model artifacts on disk, by path
    printed,        \* kernel: what each cell's last run printed
    pc,             \* kernel: the statement the running cell is at, or "idle"
    iter,           \* kernel: how many learners the for loop of 4a has consumed
    err,            \* kernel: the exception the last cell run ended with, or "none"
    auc             \* the evaluation results obtained so far: <<model, dataset>> -> AUC

kvars == <<file, requests, raw_data, data, processedData, train, test, validation,
           metrics, models, best_model, lrmodels, bestModel, saved, printed, pc,
           iter, err, auc>>
vars == <<rows, file, requests, raw_data, data, processedData, train, test,
          validation, metrics, models, best_model, lrmodels, bestModel, saved,
          printed, pc, iter, err, auc>>

(***************************************************************************)
(* Bounds of the model.                                                    *)
(***************************************************************************)
MaxLen == 4         \* longest review text, in characters
MaxRating == 5      \* ratings are 1..MaxRating
MaxAuc == 1         \* an AUC is one of the levels 0..MaxAuc
MaxRequests == 2    \* urlretrieve calls explored (failed downloads can repeat)

(***************************************************************************)
(* ROW LEVEL                                                               *)
(***************************************************************************)

\* The characters of a review: a lower-case letter, an upper-case letter, whitespace.
Chars == {"a", "A", " "}
Texts == UNION {[1..n -> Chars] : n \in 0..MaxLen}
Ratings == 1..MaxRating

\* A double: a number kept in hundredths, or NaN.
Num(c) == [nan |-> FALSE, c |-> c]
NaN == [nan |-> TRUE, c |-> 0]

RECURSIVE SumSeq(_)
SumSeq(s) == IF s = <<>> THEN 0 ELSE Head(s) + SumSeq(Tail(s))

\* Python's str.split() with no argument: the maximal runs of non-whitespace.
RECURSIVE SplitFrom(_, _, _)
SplitFrom(s, i, cur) ==
    IF i > Len(s)
    THEN (IF cur = <<>> THEN <<>> ELSE <<cur>>)
    ELSE IF s[i] = " "
         THEN (IF cur = <<>> THEN <<>> ELSE <<cur>>) \o SplitFrom(s, i + 1, <<>>)
         ELSE SplitFrom(s, i + 1, Append(cur, s[i]))
split(s) == SplitFrom(s, 1, <<>>)

\* def word_count(s): return len(s.split())
word_count(s) == Len(split(s))

\* np.mean of a list of integers: the exact quotient, or NaN for the empty list.
np_mean(ss) ==
    IF Len(ss) = 0
    THEN [nan |-> TRUE, num |-> 0, den |-> 1]
    ELSE [nan |-> FALSE, num |-> SumSeq(ss), den |-> Len(ss)]

\* round(x, 2), in hundredths: to nearest, a tie to the even hundredth.  (A tie
\* needs a word count that is a multiple of 8; up to 39 words the float quotient
\* is exact at every tie, so this is Python's result.)
round2(x) ==
    IF x.nan THEN NaN
    ELSE LET n == 100 * x.num
             q == n \div x.den
             r == n % x.den
         IN Num(IF 2 * r < x.den THEN q
                ELSE IF 2 * r > x.den THEN q + 1
                ELSE IF q % 2 = 0 THEN q ELSE q + 1)

\* def word_length(s): ss = [len(w) for w in s.split()]; return round(float(np.mean(ss)), 2)
word_length(s) ==
    LET ws == split(s)
        ss == [i \in 1..Len(ws) |-> Len(ws[i])]
    IN round2(np_mean(ss))

\* raw_data["rating"] > 3
LabelGE3(rating) == rating >= 3
LabelExpr(rating) == rating > 3

\* DataFrame operations on one row (a function from column names to values).
Select(row, cols) == [c \in cols |-> row[c]]
WithColumn(row, name, v) == (name :> v) @@ row
Drop(row, name) == [c \in (DOMAIN row) \ {name} |-> row[c]]

\* Cell 3: data = raw_data.select(rating, text, wordCount, wordLength)
\*                        .withColumn("label", rating > 3).drop("rating")
DataRow(raw) ==
    LET sel == [rating |-> raw.rating, text |-> raw.text,
                wordCount |-> word_count(raw.text),
                wordLength |-> word_length(raw.text)]
    IN Drop(WithColumn(sel, "label", LabelExpr(raw.rating)), "rating")

\* Tokenizer: the text in lower case, split at every whitespace character as
\* Java's String.split("\\s") does: empty pieces are kept, except trailing ones,
\* and a text with no whitespace is its own single piece.
ToLower(s) == [i \in 1..Len(s) |-> IF s[i] = "A" THEN "a" ELSE s[i]]

RECURSIVE PiecesFrom(_, _, _)
PiecesFrom(s, i, cur) ==
    IF i > Len(s) THEN <<cur>>
    ELSE IF s[i] = " " THEN <<cur>> \o PiecesFrom(s, i + 1, <<>>)
         ELSE PiecesFrom(s, i + 1, Append(cur, s[i]))

RECURSIVE DropTrailingEmpty(_)
DropTrailingEmpty(ps) ==
    IF ps = <<>> THEN <<>>
    ELSE IF ps[Len(ps)] = <<>> THEN DropTrailingEmpty(SubSeq(ps, 1, Len(ps) - 1))
         ELSE ps

JavaSplit(s) ==
    IF \A i \in 1..Len(s) : s[i] # " " THEN <<s>>
    ELSE DropTrailingEmpty(PiecesFrom(s, 1, <<>>))

Tokenizer(s) == JavaSplit(ToLower(s))

\* numFeatures = 10000
numFeatures == 10000

\* HashingTF: a term's position is its hash modulo numFeatures, its value the
\* number of times the term occurs.  The hash stands for the library's string
\* hash: a fixed function of the term's characters.
Code(c) == IF c = "a" THEN 97 ELSE IF c = "A" THEN 65 ELSE 32

RECURSIVE hashTerm(_)
hashTerm(t) ==
    IF t = <<>> THEN 42
    ELSE (31 * hashTerm(SubSeq(t, 1, Len(t) - 1)) + Code(t[Len(t)])) % 1000003

indexOf(t) == hashTerm(t) % numFeatures

\* A vector: its size and its non-zero entries, by position (0-based).
HashingTF(tokens) ==
    LET idx == {indexOf(tokens[i]) : i \in 1..Len(tokens)}
    IN [size |-> numFeatures,
        vals |-> [j \in idx |->
                    Num(100 * Cardinality({i \in 1..Len(tokens) : indexOf(tokens[i]) = j}))]]

At(v, i) == IF i \in DOMAIN v.vals THEN v.vals[i] ELSE Num(0)

\* feature_columns_array = ["TextFeatures", "wordCount", "wordLength"]
feature_columns_swapped == <<"TextFeatures", "wordLength", "wordCount">>
feature_columns_array == <<"TextFeatures", "wordCount", "wordLength">>

\* VectorAssembler: the input columns, in order, laid end to end.  A vector column
\* contributes its entries, an integer or double column one entry (as a double).
AsVector(row, col) ==
    IF col = "TextFeatures" THEN row[col]
    ELSE LET d == IF col = "wordCount" THEN Num(100 * row[col]) ELSE row[col]
         IN [size |-> 1, vals |-> IF d = Num(0) THEN <<>> ELSE (0 :> d)]

Concat(v1, v2) ==
    [size |-> v1.size + v2.size,
     vals |-> v1.vals @@ [j \in {i + v1.size : i \in DOMAIN v2.vals} |-> v2.vals[j - v1.size]]]

RECURSIVE AssembleFrom(_, _, _)
AssembleFrom(row, cols, k) ==
    IF k = 0 THEN [size |-> 0, vals |-> <<>>]
    ELSE Concat(AssembleFrom(row, cols, k - 1), AsVector(row, cols[k]))

VectorAssembler(row, inputCols) == AssembleFrom(row, inputCols, Len(inputCols))

\* label.cast(IntegerType()) of a boolean
CastInt(b) == IF b THEN 1 ELSE 0

\* Cell 4a, first code cell: the DataFrames it defines, for one row.
TokenizedRow(d) == WithColumn(d, "tokenizedText", Tokenizer(d.text))
FeaturizedRow(t) == WithColumn(t, "TextFeatures", HashingTF(t.tokenizedText))
AssembledRow(f) == WithColumn(f, "features", VectorAssembler(f, feature_columns_array))
ProcessedRow(a) == WithColumn(Select(a, {"label", "features"}), "label", CastInt(a.label))

(***************************************************************************)
(* KERNEL LEVEL                                                            *)
(*                                                                         *)
(* Every kernel variable is a function of the world: world 1 is the        *)
(* machine the notebook runs on; world 2 is a second machine whose data    *)
(* file differs from world 1's only in the rows that fall in the           *)
(* validation split (used by SpecNI to compare two runs).                  *)
(***************************************************************************)
Worlds == {1, 2}

\* The rows of the data file, by row identifier.
FileRows(w) == (0..3) \cup {IF w = 1 THEN 4 ELSE 9}

\* A DataFrame: its name, the part of it a split kept, and its rows.
DF(frame, part, rs) == [frame |-> frame, part |-> part, rows |-> rs]
NoFrame == DF("undefined", "all", {})

\* A file: absent, present before the notebook ran, or written by urlretrieve.
NoFile == [exists |-> FALSE, origin |-> "none", rows |-> {}]
LocalFile(w) == [exists |-> TRUE, origin |-> "local", rows |-> FileRows(w)]
RemoteFile(w) == [exists |-> TRUE, origin |-> "remote", rows |-> FileRows(w)]

\* A fitted model: the estimator, its regParam (in hundredths), the data it was fitted on.
Fit(kind, regParam, ds) == [kind |-> kind, regParam |-> regParam, fittedOn |-> ds]
NoModel == Fit("none", 0, NoFrame)

\* randomSplit([0.60, 0.20, 0.20], seed=123): a fixed partition of the rows in the
\* proportions 3 : 1 : 1 (the seed makes the split a function of the DataFrame).
PartOf(r) == IF r % 5 < 3 THEN "train" ELSE IF r % 5 = 3 THEN "test" ELSE "validation"
randomSplit(df) ==
    [p \in {"train", "test", "validation"} |->
        DF(df.frame, p, {r \in df.rows : PartOf(r) = p})]

\* lrHyperParams = [0.05, 0.1, 0.2, 0.4], in hundredths
lrHyperParams == <<5, 10, 20, 40>>

\* max(metrics) and metrics.index(best_metric)
min(ms) == CHOOSE v \in {ms[i] : i \in 1..Len(ms)} : \A j \in 1..Len(ms) : ms[j] >= v
max(ms) == CHOOSE v \in {ms[i] : i \in 1..Len(ms)} : \A j \in 1..Len(ms) : ms[j] <= v
lastIndex(ms, v) == CHOOSE i \in 1..Len(ms) : ms[i] = v /\ \A j \in (i + 1)..Len(ms) : ms[j] # v
index(ms, v) == CHOOSE i \in 1..Len(ms) : ms[i] = v /\ \A j \in 1..(i - 1) : ms[j] # v

\* An evaluation (evaluator.evaluate, FindBestModel's metric, ComputeModelStatistics)
\* is a deterministic function of the model and the scored data whose values the
\* notebook does not fix.  Where the notebook compares the values (the selection), a
\* value is drawn the first time a pair is evaluated and is the same ever after;
\* where it only prints the value, the value is kept as the term AucOf(model, data).
AucLevels == 0..MaxAuc
EvalKey(model, ds) == <<model, ds>>
CanBe(model, ds, v) == EvalKey(model, ds) \in DOMAIN auc => auc[EvalKey(model, ds)] = v
Record(table, model, ds, v) == (EvalKey(model, ds) :> v) @@ table
AucOf(model, ds) == [of |-> model, on |-> ds]

\* model.write().overwrite().save(path) on the artifacts fs: without overwrite() a
\* save to an existing path raises.
Save(fs, path, model, overwrite) ==
    IF fs[path] # NoModel /\ ~overwrite
    THEN [ok |-> FALSE, fs |-> fs]
    ELSE [ok |-> TRUE, fs |-> [fs EXCEPT ![path] = model]]

SparkPath == "SparkMLExperiment.mmls"
MmlsPath == "MMLSExperiment.mmls"
Paths == {SparkPath, MmlsPath}

\* The statements of a cell, in order; pc names the next one to run.
After(steps, l) ==
    LET i == CHOOSE k \in 1..Len(steps) : steps[k] = l
    IN IF i = Len(steps) THEN "idle" ELSE steps[i + 1]

PysparkStepsReportFirst == <<"p_loop", "p_select", "p_report", "p_save">>
PysparkSteps == <<"p_loop", "p_select", "p_save", "p_report">>
MmlsSteps == <<"m_select", "m_save", "m_report">>

(***************************************************************************)
(* Cell 2 ("Read the data")                                                *)
(***************************************************************************)
\* if not os.path.isfile(dataFile):
NeedsDownloadAlways(w) == TRUE
NeedsDownload(w) == ~file[w].exists

\* The whole cell.  urlretrieve may fail (the network is not the notebook's): the
\* exception ends the cell before read_csv, and no file is left.
ReadCell(w) ==
    /\ pc[w] = "idle"
    /\ IF NeedsDownload(w)
       THEN /\ requests[w] < MaxRequests
            /\ requests' = [requests EXCEPT ![w] = @ + 1]
            /\ \E ok \in BOOLEAN :
                 IF ok
                 THEN /\ file' = [file EXCEPT ![w] = RemoteFile(w)]
                      /\ raw_data' = [raw_data EXCEPT ![w] = DF("raw_data", "all", RemoteFile(w).rows)]
                      /\ err' = [err EXCEPT ![w] = "none"]
                 ELSE /\ err' = [err EXCEPT ![w] = "URLError"]
                      /\ UNCHANGED <<file, raw_data>>
       ELSE /\ raw_data' = [raw_data EXCEPT ![w] = DF("raw_data", "all", file[w].rows)]
            /\ err' = [err EXCEPT ![w] = "none"]
            /\ UNCHANGED <<file, requests>>
    /\ UNCHANGED <<rows, data, processedData, train, test, validation, metrics,
                   models, best_model, lrmodels, bestModel, saved, printed, pc, iter, auc>>

(***************************************************************************)
(* Cell 3 (data) and the first code cell of 4a (processedData).  A cell    *)
(* that reads a name no cell has defined yet raises NameError and changes  *)
(* nothing: it is modelled as not enabled.                                 *)
(***************************************************************************)
DataCell(w) ==
    /\ pc[w] = "idle"
    /\ raw_data[w] # NoFrame
    /\ data' = [data EXCEPT ![w] = DF("data", "all", raw_data[w].rows)]
    /\ err' = [err EXCEPT ![w] = "none"]
    /\ UNCHANGED <<rows, file, requests, raw_data, processedData, train, test, validation,
                   metrics, models, best_model, lrmodels, bestModel, saved, printed,
                   pc, iter, auc>>

FeaturizeCell(w) ==
    /\ pc[w] = "idle"
    /\ data[w] # NoFrame
    /\ processedData' = [processedData EXCEPT ![w] = DF("processedData", "all", data[w].rows)]
    /\ err' = [err EXCEPT ![w] = "none"]
    /\ UNCHANGED <<rows, file, requests, raw_data, data, train, test, validation,
                   metrics, models, best_model, lrmodels, bestModel, saved, printed,
                   pc, iter, auc>>

(***************************************************************************)
(* Cell 4a, second code cell: the pyspark path.                            *)
(***************************************************************************)
\* learner.fit(train), model.transform(test), best_model.transform(validation)
FitData(w) == train[w]
SelectionOnValidation(w) == validation[w]
SelectionData(w) == test[w]
ReportData(w) == validation[w]

\* best_model.write().overwrite().save("SparkMLExperiment.mmls")
PysparkSaveNoOverwrite(fs, model) == Save(fs, SparkPath, model, FALSE)
PysparkSave(fs, model) == Save(fs, SparkPath, model, TRUE)

\* The kernel starts the cell (its output area is cleared) and runs it up to the loop:
\* train, test, validation = processedData.randomSplit([0.60, 0.20, 0.20], seed=123);
\* lrHyperParams, logisticRegressions, evaluator; metrics = []; models = []; the for
\* statement takes an iterator at the start of logisticRegressions.
PStart(w) ==
    /\ pc[w] = "idle"
    /\ processedData[w] # NoFrame
    /\ printed' = [printed EXCEPT ![w].pyspark = <<>>]
    /\ err' = [err EXCEPT ![w] = "none"]
    /\ LET sp == randomSplit(processedData[w])
       IN /\ train' = [train EXCEPT ![w] = sp["train"]]
          /\ test' = [test EXCEPT ![w] = sp["test"]]
          /\ validation' = [validation EXCEPT ![w] = sp["validation"]]
    /\ metrics' = [metrics EXCEPT ![w] = <<>>]
    /\ models' = [models EXCEPT ![w] = <<>>]
    /\ iter' = [iter EXCEPT ![w] = 0]
    /\ pc' = [pc EXCEPT ![w] = PysparkSteps[1]]
    /\ UNCHANGED <<rows, file, requests, raw_data, data, processedData, best_model,
                   lrmodels, bestModel, saved, auc>>

\* One iteration of the loop: fit, append the model, score the test data, append
\* the metric.
PLoop(w) ==
    /\ pc[w] = "p_loop"
    /\ LET model == Fit("LogisticRegression", lrHyperParams[iter[w] + 1], FitData(w))
       IN \E v \in AucLevels :
            /\ CanBe(model, SelectionData(w), v)
            /\ models' = [models EXCEPT ![w] = Append(@, model)]
            /\ metrics' = [metrics EXCEPT ![w] = Append(@, v)]
            /\ auc' = Record(auc, model, SelectionData(w), v)
    /\ iter' = [iter EXCEPT ![w] = @ + 1]
    /\ pc' = [pc EXCEPT ![w] = IF iter[w] + 1 = Len(lrHyperParams)
                               THEN After(PysparkSteps, "p_loop") ELSE "p_loop"]
    /\ UNCHANGED <<rows, file, requests, raw_data, data, processedData, train, test,
                   validation, best_model, lrmodels, bestModel, saved, printed, err>>

\* best_metric = max(metrics); best_model = models[metrics.index(best_metric)]
PSelect(w) ==
    /\ pc[w] = "p_select"
    /\ best_model' = [best_model EXCEPT ![w] = models[w][index(metrics[w], max(metrics[w]))]]
    /\ pc' = [pc EXCEPT ![w] = After(PysparkSteps, "p_select")]
    /\ UNCHANGED <<rows, file, requests, raw_data, data, processedData, train, test,
                   validation, metrics, models, lrmodels, bestModel, saved, printed,
                   iter, err, auc>>

\* best_model.write().overwrite().save("SparkMLExperiment.mmls")
PSave(w) ==
    /\ pc[w] = "p_save"
    /\ LET res == PysparkSave(saved[w], best_model[w])
       IN /\ saved' = [saved EXCEPT ![w] = res.fs]
          /\ err' = [err EXCEPT ![w] = IF res.ok THEN @ ELSE "PathExists"]
          /\ pc' = [pc EXCEPT ![w] = IF res.ok THEN After(PysparkSteps, "p_save") ELSE "idle"]
    /\ UNCHANGED <<rows, file, requests, raw_data, data, processedData, train, test,
                   validation, metrics, models, best_model, lrmodels, bestModel,
                   printed, iter, auc>>

\* scored_val = best_model.transform(validation); print(evaluator.evaluate(scored_val))
PReport(w) ==
    /\ pc[w] = "p_report"
    /\ printed' = [printed EXCEPT ![w].pyspark = Append(@, AucOf(best_model[w], ReportData(w)))]
    /\ pc' = [pc EXCEPT ![w] = After(PysparkSteps, "p_report")]
    /\ UNCHANGED <<rows, file, requests, raw_data, data, processedData, train, test,
                   validation, metrics, models, best_model, lrmodels, bestModel,
                   saved, iter, err, auc>>

(***************************************************************************)
(* Cell 4b: the mmlspark path.  TrainClassifier, FindBestModel and         *)
(* ComputeModelStatistics are not part of the notebook; what they do is    *)
(* taken from the notebook's description of them.                          *)
(***************************************************************************)
\* TrainClassifier(model=lrm, labelCol="label", numFeatures=10000).fit(ds)
TrainClassifier(regParam, ds) == Fit("TrainClassifier", regParam, ds)

\* FindBestModel(evaluationMetric="AUC", models=ms).fit(ds): the model of the pool
\* that performs best on ds, given each model's metric on ds.
FindBestModel(ms, mets) == ms[index(mets, max(mets))]

\* The kernel starts the cell and runs it up to the selection:
\* train, test, validation = data.randomSplit([0.60, 0.20, 0.20], seed=123);
\* lrmodels = [TrainClassifier(model=lrm, ...).fit(train) for lrm in logisticRegressions]
MStart(w) ==
    /\ pc[w] = "idle"
    /\ data[w] # NoFrame
    /\ printed' = [printed EXCEPT ![w].mmlspark = <<>>]
    /\ err' = [err EXCEPT ![w] = "none"]
    /\ LET sp == randomSplit(data[w])
       IN /\ train' = [train EXCEPT ![w] = sp["train"]]
          /\ test' = [test EXCEPT ![w] = sp["test"]]
          /\ validation' = [validation EXCEPT ![w] = sp["validation"]]
          /\ lrmodels' = [lrmodels EXCEPT ![w] =
                            [i \in 1..Len(lrHyperParams) |->
                               TrainClassifier(lrHyperParams[i], sp["train"])]]
    /\ pc' = [pc EXCEPT ![w] = MmlsSteps[1]]
    /\ UNCHANGED <<rows, file, requests, raw_data, data, processedData, metrics, models,
                   best_model, bestModel, saved, iter, auc>>

\* bestModel = FindBestModel(evaluationMetric="AUC", models=lrmodels).fit(test)
MSelect(w) ==
    /\ pc[w] = "m_select"
    /\ \E mets \in [1..Len(lrmodels[w]) -> AucLevels] :
         /\ \A i \in 1..Len(lrmodels[w]) : CanBe(lrmodels[w][i], test[w], mets[i])
         /\ bestModel' = [bestModel EXCEPT ![w] = FindBestModel(lrmodels[w], mets)]
         /\ auc' = [k \in {EvalKey(lrmodels[w][i], test[w]) : i \in 1..Len(lrmodels[w])} |->
                      mets[CHOOSE i \in 1..Len(lrmodels[w]) : k = EvalKey(lrmodels[w][i], test[w])]]
                   @@ auc
    /\ pc' = [pc EXCEPT ![w] = After(MmlsSteps, "m_select")]
    /\ UNCHANGED <<rows, file, requests, raw_data, data, processedData, train, test,
                   validation, metrics, models, best_model, lrmodels, saved, printed,
                   iter, err>>


\* bestModel.write().overwrite().save("MMLSExperiment.mmls")
MSave(w) ==
    /\ pc[w] = "m_save"
    /\ LET res == Save(saved[w], MmlsPath, bestModel[w], TRUE)
       IN /\ saved' = [saved EXCEPT ![w] = res.fs]
          /\ err' = [err EXCEPT ![w] = IF res.ok THEN @ ELSE "PathExists"]
          /\ pc' = [pc EXCEPT ![w] = IF res.ok THEN After(MmlsSteps, "m_save") ELSE "idle"]
    /\ UNCHANGED <<rows, file, requests, raw_data, data, processedData, train, test,
                   validation, metrics, models, best_model, lrmodels, bestModel,
                   printed, iter, auc>>

\* predictions = bestModel.transform(validation)
\* metrics = ComputeModelStatistics().transform(predictions); print(metrics.first()["AUC"])
MReport(w) ==
    /\ pc[w] = "m_report"
    /\ metrics' = [metrics EXCEPT ![w] = <<[AUC |-> AucOf(bestModel[w], validation[w])]>>]
    /\ printed' = [printed EXCEPT ![w].mmlspark = Append(@, AucOf(bestModel[w], validation[w]))]
    /\ pc' = [pc EXCEPT ![w] = After(MmlsSteps, "m_report")]
    /\ UNCHANGED <<rows, file, requests, raw_data, data, processedData, train, test,
                   validation, models, best_model, lrmodels, bestModel, saved, iter,
                   err, auc>>

(***************************************************************************)
(* Row-level actions: cells 3 and 4a (first code cell) on one row.         *)
(***************************************************************************)
RowData ==
    /\ "raw_data" \in DOMAIN rows
    /\ "data" \notin DOMAIN rows
    /\ rows' = ("data" :> DataRow(rows["raw_data"])) @@ rows
    /\ UNCHANGED kvars

RowFeaturize ==
    /\ "data" \in DOMAIN rows
    /\ "processedData" \notin DOMAIN rows
    /\ LET t == TokenizedRow(rows["data"])
           f == FeaturizedRow(t)
           a == AssembledRow(f)
       IN rows' = ("tokenizedData" :> t) @@ ("featurizedData" :> f)
                  @@ ("assembledData" :> a) @@ ("processedData" :> ProcessedRow(a)) @@ rows
    /\ UNCHANGED kvars

(***************************************************************************)
(* Initial states and specifications.                                      *)
(***************************************************************************)
NoRows == [n \in {} |-> 0]

\* A kernel with nothing on disk but (perhaps) the data file.  With loaded, cells
\* 2, 3 and 4a (first code cell) have run; otherwise no name is defined yet.
KernelInit(files, loaded) ==
    /\ file = files
    /\ requests = [w \in Worlds |-> 0]
    /\ raw_data = [w \in Worlds |-> IF loaded THEN DF("raw_data", "all", files[w].rows) ELSE NoFrame]
    /\ data = [w \in Worlds |-> IF loaded THEN DF("data", "all", files[w].rows) ELSE NoFrame]
    /\ processedData = [w \in Worlds |->
                          IF loaded THEN DF("processedData", "all", files[w].rows) ELSE NoFrame]
    /\ train = [w \in Worlds |-> NoFrame]
    /\ test = [w \in Worlds |-> NoFrame]
    /\ validation = [w \in Worlds |-> NoFrame]
    /\ metrics = [w \in Worlds |-> <<>>]
    /\ models = [w \in Worlds |-> <<>>]
    /\ best_model = [w \in Worlds |-> NoModel]
    /\ lrmodels = [w \in Worlds |-> <<>>]
    /\ bestModel = [w \in Worlds |-> NoModel]
    /\ saved = [w \in Worlds |-> [p \in Paths |-> NoModel]]
    /\ printed = [w \in Worlds |-> [pyspark |-> <<>>, mmlspark |-> <<>>]]
    /\ pc = [w \in Worlds |-> "idle"]
    /\ iter = [w \in Worlds |-> 0]
    /\ err = [w \in Worlds |-> "none"]
    /\ auc = [k \in {} |-> 0]

\* The notebook on one machine, whose data file may or may not be there already.
Init ==
    /\ rows = NoRows
    /\ \E f \in {NoFile, LocalFile(1)} :
         KernelInit([w \in Worlds |-> IF w = 1 THEN f ELSE NoFile], FALSE)

Cells(w) ==
    \/ ReadCell(w)
    \/ DataCell(w)
    \/ FeaturizeCell(w)
    \/ PStart(w)
    \/ PLoop(w)
    \/ PSelect(w)
    \/ PSave(w)
    \/ PReport(w)
    \/ MStart(w)
    \/ MSelect(w)
    \/ MSave(w)
    \/ MReport(w)

Next == \E w \in {1} : Cells(w)

Spec == Init /\ [][Next]_vars

\* One row of raw_data through cells 3 and 4a.
InitRow ==
    /\ rows \in {("raw_data" :> [rating |-> r, text |-> t]) : r \in Ratings, t \in Texts}
    /\ KernelInit([w \in Worlds |-> NoFile], FALSE)

NextRow == RowData \/ RowFeaturize

SpecRow == InitRow /\ [][NextRow]_vars

\* Two machines that have loaded and featurized their data, each then running the
\* two classification cells any number of times.  The machines share nothing, so
\* their steps commute: machine 2 runs its cells after machine 1 has run its own.
InitNI ==
    /\ rows = NoRows
    /\ KernelInit([w \in Worlds |-> LocalFile(w)], TRUE)

MayStart(w) ==
    /\ \A u \in Worlds : u < w => pc[u] = "idle"
    /\ \A u \in Worlds : u > w => train[u] = NoFrame

NextNI ==
    \E w \in Worlds :
        \/ MayStart(w) /\ PStart(w)
        \/ PLoop(w)
        \/ PSelect(w)
        \/ PSave(w)
        \/ PReport(w)
        \/ MayStart(w) /\ MStart(w)
        \/ MSelect(w)
        \/ MSave(w)
        \/ MReport(w)

SpecNI == InitNI /\ [][NextNI]_vars

(***************************************************************************)
(* PROPERTIES                                                              *)
(***************************************************************************)
Range(s) == {s[i] : i \in 1..Len(s)}
PysparkSplit(w) == randomSplit(processedData[w])
MmlsSplit(w) == randomSplit(data[w])
Sweep(kind, ds) == {Fit(kind, r, ds) : r \in {5, 10, 20, 40}}
InPyspark(w) == pc[w] \in {"p_loop", "p_select", "p_save", "p_report"}
InMmls(w) == pc[w] \in {"m_select", "m_save", "m_report"}

\* m is a model of the sweep fitted on sp's train part, every model of the sweep
\* has been evaluated on sp's test part, and none has a higher AUC there than m.
BestOnTest(m, kind, sp) ==
    /\ m \in Sweep(kind, sp["train"])
    /\ sp["train"].part = "train"
    /\ \A o \in Sweep(kind, sp["train"]) :
         /\ EvalKey(o, sp["test"]) \in DOMAIN auc
         /\ auc[EvalKey(m, sp["test"])] >= auc[EvalKey(o, sp["test"])]

\* C1: in both code paths the model chosen as best is one of the models trained in
\* the sweep [0.05, 0.1, 0.2, 0.4] on the train split, and its AUC on the test split
\* is greater than or equal to the test AUC of every model of the sweep.
C1_BestHasHighestTestAuc ==
    \A w \in Worlds :
        /\ best_model[w] # NoModel =>
             BestOnTest(best_model[w], "LogisticRegression", PysparkSplit(w))
        /\ bestModel[w] # NoModel =>
             BestOnTest(bestModel[w], "TrainClassifier", MmlsSplit(w))

\* Both paths have chosen, and in each the chosen model is not the first of the
\* sweep: a later one was strictly better on the test split.
C1_Witness ==
    /\ best_model[1] # NoModel /\ best_model[1].regParam = 20
    /\ bestModel[1] # NoModel /\ bestModel[1].regParam = 40
    /\ pc[1] = "idle"

\* C2: the derived label is true iff the rating is greater than 3 (rating 3 is
\* labelled false); after the integer cast of the pyspark path the label is 1 iff
\* rating > 3 and 0 otherwise; the derived datasets have no rating column.
C2_LabelIffRatingAbove3 ==
    LET rating == rows["raw_data"].rating
    IN /\ "data" \in DOMAIN rows =>
            /\ rows["data"].label = (rating > 3)
            /\ (rating = 3 => rows["data"].label = FALSE)
            /\ DOMAIN rows["data"] = {"text", "wordCount", "wordLength", "label"}
       /\ "processedData" \in DOMAIN rows =>
            /\ rows["processedData"].label \in {0, 1}
            /\ (rows["processedData"].label = 1) = (rating > 3)
            /\ DOMAIN rows["processedData"] = {"label", "features"}

\* A row rated exactly 3 has gone through both cells and is labelled false, then 0.
C2_Witness ==
    /\ "processedData" \in DOMAIN rows
    /\ rows["raw_data"].rating = 3
    /\ rows["data"].label = FALSE
    /\ rows["processedData"].label = 0

\* C5: the assembled feature vector is the hashed token vector of the row's text
\* (numFeatures positions) followed by the row's wordCount and then its wordLength:
\* it has numFeatures + 2 entries and its last two are the row's own wordCount and
\* wordLength.
C5_FeaturesAreHashThenCounts ==
    "processedData" \in DOMAIN rows =>
        LET a == rows["assembledData"]
            tf == a.TextFeatures
            f == a.features
        IN /\ tf = HashingTF(Tokenizer(rows["raw_data"].text))
           /\ tf.size = 10000
           /\ f.size = 10002
           /\ DOMAIN f.vals \subseteq 0..10001
           /\ \A i \in (DOMAIN f.vals \cup DOMAIN tf.vals) \ {10000, 10001} : At(f, i) = At(tf, i)
           /\ At(f, 10000) = Num(100 * word_count(rows["raw_data"].text))
           /\ At(f, 10001) = word_length(rows["raw_data"].text)
           /\ a.wordCount = rows["data"].wordCount
           /\ a.wordLength = rows["data"].wordLength
           /\ rows["processedData"].features = f

\* A row of two words of different lengths: the hashed part has two non-zero
\* positions and the two numeric entries differ.
C5_Witness ==
    /\ "processedData" \in DOMAIN rows
    /\ rows["data"].wordCount = 2
    /\ rows["data"].wordLength = Num(150)
    /\ Cardinality(DOMAIN rows["assembledData"].TextFeatures.vals) = 2
    /\ Cardinality(DOMAIN rows["processedData"].features.vals) = 4

\* The words of a text, counted without splitting it: the positions where a
\* non-whitespace character starts the text or follows whitespace.
WordStarts(s) == {i \in 1..Len(s) : s[i] # " " /\ (i = 1 \/ s[i - 1] = " ")}
WordEnd(s, i) == CHOOSE j \in i..Len(s) :
                    /\ \A k \in i..j : s[k] # " "
                    /\ (j = Len(s) \/ s[j + 1] = " ")
WordLen(s, i) == WordEnd(s, i) - i + 1

RECURSIVE SumLens(_, _)
SumLens(s, starts) ==
    IF starts = {} THEN 0
    ELSE LET i == CHOOSE j \in starts : TRUE
         IN WordLen(s, i) + SumLens(s, starts \ {i})

\* C8: for every review text word_count is the number of whitespace-separated
\* words and word_length is a number, the mean of the words' lengths rounded to two
\* decimals; both are defined numbers for every text, a text with no words
\* included; with at least one word the mean is at least 1 and at most the length
\* of the longest word.
C8_FeaturesAreDefinedNumbers ==
    "data" \in DOMAIN rows =>
        LET s == rows["raw_data"].text
            d == rows["data"]
            starts == WordStarts(s)
        IN /\ d.wordCount = Cardinality(starts)
           /\ d.wordLength.nan = FALSE
           /\ LET diff == 100 * SumLens(s, starts) - d.wordLength.c * Cardinality(starts)
              IN 2 * diff <= Cardinality(starts) /\ -2 * diff <= Cardinality(starts)
           /\ starts # {} =>
                /\ d.wordLength.c >= 100
                /\ \E i \in starts : d.wordLength.c <= 100 * WordLen(s, i)
                /\ \E i \in starts : d.wordLength.c >= 100 * WordLen(s, i)

\* C3: the data file is fetched if and only if it is not present when the read cell
\* runs; an existing file is never written and is what the cell reads; once a run
\* of the cell has succeeded, no later step downloads again.
C3_DownloadIffAbsent ==
    /\ [][\A w \in Worlds :
            /\ ReadCell(w) => ((requests'[w] = requests[w] + 1) <=> ~file[w].exists)
            /\ requests'[w] # requests[w] => ReadCell(w) /\ requests'[w] = requests[w] + 1
            /\ file[w].exists => file'[w] = file[w]
            /\ (ReadCell(w) /\ file[w].exists) =>
                 raw_data'[w] = DF("raw_data", "all", file[w].rows)
            /\ raw_data[w] # NoFrame => requests'[w] = requests[w]]_vars
    /\ [](\A w \in Worlds : raw_data[w] # NoFrame => file[w].exists)

\* A download failed, a second one succeeded, the file was read, and the later
\* cells have run on it.
C3_Witness ==
    /\ requests[1] = 2
    /\ file[1] = RemoteFile(1)
    /\ raw_data[1] = DF("raw_data", "all", FileRows(1))
    /\ processedData[1] # NoFrame

\* C4 as claimed: in every run of either path the validation AUC has been reported
\* when the model artifact is written.
C4_ReportedBeforeSaved ==
    \A w \in Worlds :
        /\ pc[w] = "p_save" => printed[w].pyspark # <<>>
        /\ pc[w] = "m_save" => printed[w].mmlspark # <<>>

\* C4 as amended: all models are trained, then the best is picked, then the chosen
\* model is persisted, and only then is the validation AUC reported: in every run
\* of either path the artifact holds the chosen model when the AUC is reported, and
\* nothing has been reported when the artifact is written.
C4_SavedBeforeReported ==
    \A w \in Worlds :
        /\ pc[w] = "p_select" => Len(models[w]) = 4 /\ printed[w].pyspark = <<>>
        /\ pc[w] = "p_save" =>
             best_model[w] \in Range(models[w]) /\ printed[w].pyspark = <<>>
        /\ pc[w] = "p_report" =>
             saved[w][SparkPath] = best_model[w] /\ printed[w].pyspark = <<>>
        /\ printed[w].pyspark # <<>> =>
             /\ saved[w][SparkPath] = best_model[w]
             /\ best_model[w] # NoModel
             /\ printed[w].pyspark = <<AucOf(best_model[w], PysparkSplit(w)["validation"])>>
        /\ pc[w] = "m_select" => Len(lrmodels[w]) = 4 /\ printed[w].mmlspark = <<>>
        /\ pc[w] = "m_save" =>
             bestModel[w] \in Range(lrmodels[w]) /\ printed[w].mmlspark = <<>>
        /\ pc[w] = "m_report" =>
             saved[w][MmlsPath] = bestModel[w] /\ printed[w].mmlspark = <<>>
        /\ printed[w].mmlspark # <<>> =>
             /\ saved[w][MmlsPath] = bestModel[w]
             /\ bestModel[w] # NoModel
             /\ printed[w].mmlspark = <<AucOf(bestModel[w], MmlsSplit(w)["validation"])>>

\* Both paths have run to their end: each has written its artifact and then
\* printed the validation AUC of the model it wrote.
C4_Witness ==
    /\ pc[1] = "idle"
    /\ printed[1].pyspark # <<>>
    /\ printed[1].mmlspark # <<>>
    /\ saved[1][SparkPath] # NoModel
    /\ saved[1][MmlsPath] # NoModel

\* C9: in the pyspark selection loop models and metrics stay index-aligned: after
\* each iteration they have equal length, models[i] is the model trained with
\* lrHyperParams[i] and metrics[i] is its test AUC; after the loop both have exactly
\* 4 entries and best_model is models[i] for the smallest i whose metric is
\* max(metrics); a re-run starts from empty lists.
C9_ListsAlignedFirstMaxChosen ==
    \A w \in Worlds :
        /\ InPyspark(w) =>
             /\ Len(models[w]) = iter[w]
             /\ Len(metrics[w]) = iter[w]
             /\ iter[w] <= 4
             /\ \A i \in 1..Len(models[w]) :
                  /\ models[w][i] = Fit("LogisticRegression", <<5, 10, 20, 40>>[i], train[w])
                  /\ EvalKey(models[w][i], test[w]) \in DOMAIN auc
                  /\ metrics[w][i] = auc[EvalKey(models[w][i], test[w])]
        /\ pc[w] = "p_loop" => iter[w] < 4
        /\ pc[w] \in {"p_select", "p_save", "p_report"} => iter[w] = 4
        /\ pc[w] \in {"p_save", "p_report"} =>
             \E i \in 1..4 :
                 /\ best_model[w] = models[w][i]
                 /\ \A j \in 1..4 : metrics[w][j] <= metrics[w][i]
                 /\ \A j \in 1..(i - 1) : metrics[w][j] < metrics[w][i]

\* A re-run (the artifact of an earlier run is on disk) in which the second and
\* third models tie for the best test AUC: the second is chosen.
C9_Witness ==
    /\ pc[1] = "p_save"
    /\ saved[1][SparkPath] # NoModel
    /\ metrics[1][1] < metrics[1][2]
    /\ metrics[1][3] = metrics[1][2]
    /\ metrics[1][4] <= metrics[1][2]
    /\ best_model[1] = models[1][2]

\* C10: each path persists the model it chose to its own path, overwriting what is
\* there: between cells each artifact holds the best model of the last run of its
\* own path, a step of one path never changes the other path's artifact, an
\* artifact changes only at its path's save statement, and no save fails.
C10_ArtifactsPerPath ==
    /\ [](\A w \in Worlds :
            /\ err[w] # "PathExists"
            /\ (pc[w] = "idle" /\ best_model[w] # NoModel) => saved[w][SparkPath] = best_model[w]
            /\ (pc[w] = "idle" /\ bestModel[w] # NoModel) => saved[w][MmlsPath] = bestModel[w])
    /\ [][\A w \in Worlds :
            /\ saved'[w][SparkPath] # saved[w][SparkPath] =>
                 pc[w] = "p_save" /\ saved'[w][SparkPath] = best_model[w]
            /\ saved'[w][MmlsPath] # saved[w][MmlsPath] =>
                 pc[w] = "m_save" /\ saved'[w][MmlsPath] = bestModel[w]
            /\ pc[w] = "p_save" => pc'[w] = "p_report" /\ saved'[w][SparkPath] = best_model[w]
            /\ pc[w] = "m_save" => pc'[w] = "m_report" /\ saved'[w][MmlsPath] = bestModel[w]]_vars

\* A re-run of the pyspark path has just saved over the artifact of its earlier
\* run (whose report is still the last thing the mmlspark path saw), and the
\* mmlspark artifact is on disk too.
C10_Witness ==
    /\ pc[1] = "p_report"
    /\ saved[1][SparkPath] = best_model[1]
    /\ saved[1][MmlsPath] # NoModel
    /\ train[1].frame = "processedData"
    /\ metrics[1] # <<>>
    /\ lrmodels[1] # <<>>

\* C7: every model is fitted on the train split only, every evaluation used for
\* the selection is on the test split only, and the validation split is used only
\* to score the model already chosen; so two machines whose data differ only in
\* the rows of the validation split choose the same best model and persist the
\* same artifact, in either path.
C7_ValidationNeverInfluencesChoice ==
    /\ \A k \in DOMAIN auc : k[1].fittedOn.part = "train" /\ k[2].part = "test"
    /\ \A w \in Worlds :
         /\ \A i \in 1..Len(models[w]) : models[w][i].fittedOn.part = "train"
         /\ \A i \in 1..Len(lrmodels[w]) : lrmodels[w][i].fittedOn.part = "train"
         /\ \A t \in Range(printed[w].pyspark) :
              t.of = best_model[w] /\ t.on = DF("processedData", "validation", FileRows(w) \ (0..3))
         /\ \A t \in Range(printed[w].mmlspark) :
              t.of = bestModel[w] /\ t.on = DF("data", "validation", FileRows(w) \ (0..3))
    /\ \A w1, w2 \in Worlds :
         /\ (best_model[w1] # NoModel /\ best_model[w2] # NoModel) =>
              best_model[w1] = best_model[w2]
         /\ (bestModel[w1] # NoModel /\ bestModel[w2] # NoModel) =>
              bestModel[w1] = bestModel[w2]
         /\ \A p \in Paths :
              (saved[w1][p] # NoModel /\ saved[w2][p] # NoModel) => saved[w1][p] = saved[w2][p]

\* Both machines have run both paths; their validation splits differ, so what
\* they printed differs, and the artifacts are the same.
C7_Witness ==
    /\ pc[1] = "idle" /\ pc[2] = "idle"
    /\ printed[1].pyspark # <<>> /\ printed[2].pyspark # <<>>
    /\ printed[1].pyspark # printed[2].pyspark
    /\ printed[1].mmlspark # <<>> /\ printed[2].mmlspark # <<>>
    /\ printed[1].mmlspark # printed[2].mmlspark
    /\ saved[1] = saved[2]
    /\ saved[1][SparkPath].regParam = 10
    /\ saved[1][MmlsPath].regParam = 40

====
